---- MODULE Spec2Model ----
(***************************************************************************)
(* Model of the RoadHero dashboard: the route rendering of the map,        *)
(* src/components/RealtimeMap.tsx, the later RouteLine definition (lines   *)
(* 442-614) and the part of RealtimeMap (lines 643-760) that owns its      *)
(* props; the ticket list of DashboardPage (src/unnamed/part_000) with its *)
(* fetches and its realtime subscription; and the status update of         *)
(* TicketsPanel (RealtimeMap.tsx lines 861-868).  JavaScript runs one      *)
(* handler at a time, so every handler (an effect run with the cleanup     *)
(* that precedes it, the continuation of a fetch, a timer callback, a      *)
(* subscription callback) is one atomic action.  The earlier RouteLine     *)
(* definition of the same file (lines 49-233) is modelled beside the later *)
(* one, over the same variables, in a specification of its own.            *)
(*                                                                         *)
(* Leaflet is modelled as a set of layers attached to the map: addTo adds  *)
(* a layer, removeLayer removes it, hasLayer is membership.  The calls     *)
(* that follow an install (polylineDecorator, fitBounds) are taken not to  *)
(* throw, which Leaflet guarantees for a polyline of at least one point.   *)
(*                                                                         *)
(* Each RouteLine instance has its own refs.  The refs of an unmounted     *)
(* instance are never written again: only its effect sets the flag, only a *)
(* continuation that finds the flag set writes the others, and the flag is *)
(* false from its last effect or cleanup on.  So the model keeps the refs  *)
(* of the mounted instance and, for each calculation, whether the instance *)
(* that started it is still the mounted one (calc[g].mounted).             *)
(***************************************************************************)
EXTENDS Integers, Sequences, FiniteSets, TLC

VARIABLES
  tickets,              \* RouteLine's prop: RealtimeMap.activeTickets
  optimizeRoute,        \* RealtimeMap state, RouteLine's prop
  showRoutes,           \* RealtimeMap state: RouteLine is mounted iff TRUE
  isCalculatingRoutes,  \* RealtimeMap state set through onLoadingChange
  isCalculatingRef,     \* useRef(false) of the mounted RouteLine instance
  routePolylineRef,     \* useRef(null) of the mounted instance
  decoratorRef,         \* useRef(null) of the mounted instance
  mapLayers,            \* the layers attached to the Leaflet map
  gen,                  \* number of calculations started so far
  calc,                 \* per calculation: its closure and its fetch
  timeoutId,            \* calculations whose 15 s timer is pending
  cleanup,              \* calculation whose effect cleanup is registered, 0: none
  dashboardTickets,     \* DashboardPage state `tickets`: the canonical list
  table,                \* the rows of the tickets table on the server
  inserted,             \* number of rows inserted so far (ids 1..inserted)
  channel,              \* realtime events sent and not yet handled, in order
  fetches,              \* per fetchTickets call: its phase and its data
  issued,               \* number of fetchTickets calls made so far
  updates,              \* per updateStatus call: its phase and its arguments
  pageMounted,          \* DashboardPage: "no", "mounted" or "unmounted"
  subscription,         \* the channels created and removed by the page's effect
  channelStatus         \* the status last passed to the subscribe callback

\* the state of the map: RealtimeMap and RouteLine
mapVars == <<tickets, optimizeRoute, showRoutes, isCalculatingRoutes,
             isCalculatingRef, routePolylineRef, decoratorRef, mapLayers,
             gen, calc, timeoutId, cleanup>>

\* the state of the page, of the server and of the requests between them
\* the life of the page instance and of its realtime channel
subVars == <<pageMounted, subscription, channelStatus>>

dashVars == <<dashboardTickets, table, inserted, channel, fetches, issued,
              updates, subVars>>

vars == <<mapVars, dashVars>>

----------------------------------------------------------------------------
(* Bounds *)

MaxCalcs == 3       \* calculations started in one behaviour
MaxOrderStops == 4  \* longest ticket list of SpecOrder
MaxRows == 3        \* rows ever inserted into the tickets table
MaxDeletes == 1     \* rows deleted from the table in one behaviour
MaxFetches == 3     \* fetchTickets calls in one behaviour
MaxUpdates == 1     \* updateStatus calls in one behaviour


----------------------------------------------------------------------------
(* Data *)

\* type Ticket, reduced to the fields RouteLine reads
Ticket(lat, lon) == [latitude |-> lat, longitude |-> lon]

\* the tickets the lists are drawn from, pairwise distinct locations
TicketPool == <<Ticket(0, 0), Ticket(0, 1), Ticket(1, 0), Ticket(0, 3), Ticket(2, 2)>>

Range(s) == {s[i] : i \in 1..Len(s)}

Injective(s) == \A i, j \in 1..Len(s) : i # j => s[i] # s[j]

\* the lists of at most n distinct tickets of the pool
TicketLists(n) ==
  UNION {{s \in [1..m -> Range(TicketPool)] : Injective(s)} : m \in 0..n}

\* the ticket lists of Spec: none, one and two tickets (a new list of the
\* same content reruns the effect like any other)
StopLists ==
  { <<>>,
    <<TicketPool[1]>>,
    <<TicketPool[3], TicketPool[2]>> }

\* the geometries a service response may carry, as [lon, lat] pairs
Geometries == { <<<<0, 1>>, <<2, 1>>>>, <<<<1, 0>>, <<1, 2>>, <<0, 2>>>> }

\* what the awaited fetch and response.json() produce
Responses ==
  {[kind |-> "ok", geometry |-> g] : g \in Geometries}
    \cup {[kind |-> k, geometry |-> <<>>] :
            k \in {"okNoGeometry", "nonOk", "malformed", "network"}}

NoResponse == [kind |-> "none", geometry |-> <<>>]

----------------------------------------------------------------------------
(* The rows of the tickets table and the derived list of RealtimeMap *)

\* created_at of the row with each id, in microseconds as the database keeps
\* it: rows are inserted in the order of their ids, 1 and 2 within the same
\* millisecond
CreatedAts == <<1000, 1400, 2000, 3000, 3600>>

\* pothole_metadata.severity of the row with each id
Severities == <<"HIGH", "HIGH", "LOW", "MEDIUM", "HIGH">>

\* type Ticket of DashboardPage: the row with this id and status, joined
\* with its pothole_metadata
Row(id, status) ==
  [id |-> id, status |-> status, created_at |-> CreatedAts[id],
   severity |-> Severities[id],
   latitude |-> TicketPool[id].latitude, longitude |-> TicketPool[id].longitude]

Statuses == {"ACTIVE", "COMPLETE"}

\* severityWeights
SeverityWeights(severity) ==
  CASE severity = "HIGH" -> 3
    [] severity = "MEDIUM" -> 2
    [] severity = "LOW" -> 1

\* new Date(created_at).getTime(): a Date has millisecond precision
GetTime(created_at) == created_at \div 1000

\* a comparator that sorts by severity ascending
CompareAscending(a, b) ==
  LET severityDiff == SeverityWeights(a.severity) - SeverityWeights(b.severity)
  IN IF severityDiff # 0 THEN severityDiff
     ELSE GetTime(b.created_at) - GetTime(a.created_at)

\* the comparator of the sort: severityDiff || difference of the times
Compare(a, b) ==
  LET severityDiff == SeverityWeights(b.severity) - SeverityWeights(a.severity)
  IN IF severityDiff # 0 THEN severityDiff
     ELSE GetTime(b.created_at) - GetTime(a.created_at)

\* Array.prototype.sort is stable: x goes before the first element that the
\* comparator puts after it
InsertSorted(sorted, x) ==
  LET after == {i \in 1..Len(sorted) : Compare(sorted[i], x) > 0}
      k == IF after = {} THEN Len(sorted) + 1
           ELSE CHOOSE i \in after : \A j \in after : i <= j
  IN [i \in 1..(Len(sorted) + 1) |->
        IF i < k THEN sorted[i] ELSE IF i = k THEN x ELSE sorted[i - 1]]

RECURSIVE SortFrom(_, _, _)
SortFrom(list, idx, sorted) ==
  IF idx > Len(list) THEN sorted
  ELSE SortFrom(list, idx + 1, InsertSorted(sorted, list[idx]))

\* .sort((a, b) => ...)
Sort(list) == SortFrom(list, 1, <<>>)

IsActive(t) == t.status = "ACTIVE"

\* activeTickets: [...tickets].filter(ACTIVE).sort(...)
ActiveTickets(list) == Sort(SelectSeq(list, IsActive))

----------------------------------------------------------------------------
(* Pure parts of fetchOptimalRoute *)

\* coords = tickets.map(t => [longitude, latitude])
Coords(tk) == [i \in 1..Len(tk) |-> <<tk[i].longitude, tk[i].latitude>>]

\* The square of the distance the loop computes.  Math.sqrt is increasing and
\* exact enough on these integers to keep distinct squares distinct, so the
\* comparison dist < minDist is the comparison of the squares.
Dist2(a, b) == (a[1] - b[1]) * (a[1] - b[1]) + (a[2] - b[2]) * (a[2] - b[2])

Infinity == -1

\* a comparison that lets a later equal distance replace the minimum
CloserOrEqual(dist, minDist) == minDist = Infinity \/ dist <= minDist

\* dist < minDist
Closer(dist, minDist) == minDist = Infinity \/ dist < minDist

\* unvisited.forEach: the index (from 1) left in nearestIdx
RECURSIVE NearestScan(_, _, _, _, _)
NearestScan(unvisited, last, idx, nearestIdx, minDist) ==
  IF idx > Len(unvisited) THEN nearestIdx
  ELSE LET dist == Dist2(unvisited[idx], last)
       IN IF Closer(dist, minDist)
          THEN NearestScan(unvisited, last, idx + 1, idx, dist)
          ELSE NearestScan(unvisited, last, idx + 1, nearestIdx, minDist)

\* unvisited.splice(nearestIdx, 1): the list without that element
Splice(s, k) == [i \in 1..(Len(s) - 1) |-> IF i < k THEN s[i] ELSE s[i + 1]]

\* while (unvisited.length > 0) { ... orderedCoords.push(...) }
RECURSIVE GreedyLoop(_, _)
GreedyLoop(orderedCoords, unvisited) ==
  IF Len(unvisited) = 0 THEN orderedCoords
  ELSE LET last == orderedCoords[Len(orderedCoords)]
           nearestIdx == NearestScan(unvisited, last, 1, 1, Infinity)
       IN GreedyLoop(Append(orderedCoords, unvisited[nearestIdx]),
                     Splice(unvisited, nearestIdx))

\* the greedy nearest-neighbour order of a list of at least one point
OrderedCoords(coords) == GreedyLoop(<<Head(coords)>>, Tail(coords))

\* a request that is always given the nearest-neighbour order
UrlPointsAlwaysOrdered(coords, optimize) == OrderedCoords(coords)

\* the points of the request url, in the order they are written into it
UrlPoints(coords, optimize) ==
  IF optimize THEN OrderedCoords(coords) ELSE coords

\* a conversion that keeps the geometry's [lon, lat] order
RouteCoordsUnswapped(geometry) == geometry

\* routeCoords: each [lon, lat] of the geometry as [lat, lon]
RouteCoords(geometry) ==
  [i \in 1..Len(geometry) |-> <<geometry[i][2], geometry[i][1]>>]

\* fallbackCoords: coords, each as [lat, lon]
FallbackCoords(coords) ==
  [i \in 1..Len(coords) |-> <<coords[i][2], coords[i][1]>>]

----------------------------------------------------------------------------
(* The map and the refs *)

Null == [kind |-> "null", gen |-> 0, latlngs |-> <<>>, color |-> "", dashArray |-> ""]

\* L.polyline(latlngs, {color, dashArray}) created by calculation g
Polyline(g, latlngs, color, dashArray) ==
  [kind |-> "polyline", gen |-> g, latlngs |-> latlngs, color |-> color,
   dashArray |-> dashArray]

\* L.polylineDecorator(polyline, {...arrowHead, color}) created by calculation g
Decorator(g, color) ==
  [kind |-> "decorator", gen |-> g, latlngs |-> <<>>, color |-> color,
   dashArray |-> ""]

\* the module-level PolylineDecorator: the plugin is imported, so it is set
PolylineDecorator == TRUE

\* color: optimizeRoute ? "#10b981" : "#2563eb"
RouteColor(optimize) == IF optimize THEN "#10b981" ELSE "#2563eb"

\* the hasLayer test negated: a layer that is attached stays
RemoveIfDetached(layers, ref) == layers

\* if (ref.current && map.hasLayer(ref.current)) map.removeLayer(ref.current)
RemoveIfAttached(layers, ref) ==
  IF ref # Null /\ ref \in layers THEN layers \ {ref} ELSE layers

\* a clearRouteLayers that forgets the polyline without detaching it
ClearRouteLayersKeepsPolyline(layers, poly, deco) == RemoveIfAttached(layers, deco)

\* clearRouteLayers: the layers left on the map (both refs become null)
ClearRouteLayers(layers, poly, deco) ==
  RemoveIfAttached(RemoveIfAttached(layers, poly), deco)

\* a check that lets every continuation through
StillCalculatingAlways(ref, own) == TRUE

\* if (!isCalculatingRef.current) return;  -- TRUE when the result is applied.
\* own: the closure's instance is the mounted one, whose flag is ref.
StillCalculating(ref, own) == own /\ ref

----------------------------------------------------------------------------
(* Calculations: the closure of one effect run and the state of its fetch. *)
(* response, timedOut, torn and overlap are history: what the fetch got,   *)
(* whether the timer fired, whether the stop set dropped below 2 or the    *)
(* instance was unmounted while the fetch was pending, and whether the     *)
(* previous calculation's fetch was still pending when this one started.   *)
(* requests counts the calls of fetch(url) made for the calculation.       *)

NoCalc ==
  [mounted |-> FALSE, coords |-> <<>>, optimizeRoute |-> FALSE, urlPoints |-> <<>>,
   status |-> "none", response |-> NoResponse, timedOut |-> FALSE,
   torn |-> FALSE, overlap |-> FALSE, requests |-> 0]

\* A settled calculation with no layer left on the map is never read again:
\* its closure (coords, the mode, the parsed body) is dropped, and so is its
\* history once a later calculation has started.
Forget(c, layers, latest) ==
  [g \in DOMAIN c |->
     IF c[g].status = "settled" /\ ~(\E l \in layers : l.gen = g)
     THEN IF g < latest
          THEN [NoCalc EXCEPT !.status = "settled", !.requests = c[g].requests]
          ELSE [c[g] EXCEPT !.coords = <<>>, !.urlPoints = <<>>,
                            !.optimizeRoute = FALSE, !.response.geometry = <<>>]
     ELSE c[g]]

MarkTorn(c) ==
  [g \in DOMAIN c |->
     IF c[g].status = "pending" THEN [c[g] EXCEPT !.torn = TRUE] ELSE c[g]]

\* the instance that started these calculations is unmounted
Unmounted(c) == [g \in DOMAIN c |-> [c[g] EXCEPT !.mounted = FALSE]]

----------------------------------------------------------------------------
(* Calls in flight between the page and the server.  Of a settled fetch,   *)
(* error is history, and so are early (the fetch was sent while the        *)
(* initial fetch was pending) and data, kept until the initial fetch has   *)
(* settled.                                                                *)

\* a fetchTickets call: sent, answered by the server (data or error), settled
NoFetch == [phase |-> "none", data |-> <<>>, error |-> FALSE, early |-> FALSE]

\* an updateStatus call: sent, answered by the server, settled
NoUpdate == [phase |-> "none", id |-> 0, status |-> "", error |-> FALSE]

\* the channels of the page: how many supabase.channel(...).subscribe()
\* calls and removeChannel calls were made, and how many fetchTickets calls
\* had been made when the channel was created
NoSubscription == [created |-> 0, removed |-> 0, after |-> 0]

\* the page's callback is registered with the realtime client
Subscribed(sub) == sub.created > sub.removed

\* DashboardPage after its mount effect (lines 29-87) over a table of the
\* rows 1..k: the list is empty, the initial fetch is sent and the channel
\* is subscribed
InitPage(k) ==
  /\ dashboardTickets = <<>>
  /\ table = {Row(id, "ACTIVE") : id \in 1..k}
  /\ inserted = k
  /\ channel = <<>>
  /\ fetches = [n \in 1..MaxFetches |->
                  IF n = 1 THEN [NoFetch EXCEPT !.phase = "sent"] ELSE NoFetch]
  /\ issued = 1
  /\ updates = [u \in 1..MaxUpdates |-> NoUpdate]
  /\ pageMounted = "mounted"
  /\ subscription = [NoSubscription EXCEPT !.created = 1, !.after = 1]
  /\ channelStatus = ""

----------------------------------------------------------------------------
(* Initial state: RealtimeMap mounted with an empty ticket list; the first *)
(* RouteLine instance has run its effect through the fewer-than-2 branch.  *)
(* The page has just mounted over an empty table.                          *)

Init ==
  /\ InitPage(0)
  /\ tickets = <<>>
  /\ optimizeRoute = FALSE
  /\ showRoutes = TRUE
  /\ isCalculatingRoutes = FALSE
  /\ isCalculatingRef = FALSE
  /\ routePolylineRef = Null
  /\ decoratorRef = Null
  /\ mapLayers = {}
  /\ gen = 0
  /\ calc = [g \in 1..MaxCalcs |-> NoCalc]
  /\ timeoutId = {}
  /\ cleanup = 0

-----------------------------------------------------------------------------------------------------------------------------------------------
(* The effect of RouteLine (lines 456-611) run by the mounted instance     *)
(* with props tk and opt: first the cleanup the previous run returned, if  *)
(* any (stopLoading, clearTimeout, clearRouteLayers), then the body.       *)

Effect(tk, opt) ==
  LET ran == cleanup # 0
      layers1 == IF ran
                 THEN ClearRouteLayers(mapLayers, routePolylineRef, decoratorRef)
                 ELSE mapLayers
      poly1 == IF ran THEN Null ELSE routePolylineRef
      deco1 == IF ran THEN Null ELSE decoratorRef
      timers1 == IF ran THEN timeoutId \ {cleanup} ELSE timeoutId
  IN IF Len(tk) < 2
     THEN \* clearRouteLayers(); stopLoading(); return;
          /\ mapLayers' = ClearRouteLayers(layers1, poly1, deco1)
          /\ routePolylineRef' = Null
          /\ decoratorRef' = Null
          /\ isCalculatingRef' = FALSE
          /\ isCalculatingRoutes' = FALSE
          /\ timeoutId' = timers1
          /\ cleanup' = 0
          /\ calc' = Forget(MarkTorn(calc), {}, gen)
          /\ gen' = gen
     ELSE \* start a calculation: flag, loading, fetch, timer, cleanup
          /\ gen < MaxCalcs
          /\ gen' = gen + 1
          /\ mapLayers' = layers1
          /\ routePolylineRef' = poly1
          /\ decoratorRef' = deco1
          /\ isCalculatingRef' = TRUE
          /\ isCalculatingRoutes' = TRUE
          /\ timeoutId' = timers1 \cup {gen + 1}
          /\ cleanup' = gen + 1
          /\ calc' = [Forget(calc, layers1, gen + 1) EXCEPT ![gen + 1] =
                        [mounted |-> TRUE,
                         coords |-> Coords(tk),
                         optimizeRoute |-> opt,
                         urlPoints |-> UrlPoints(Coords(tk), opt),
                         status |-> "pending",
                         response |-> NoResponse,
                         timedOut |-> FALSE,
                         torn |-> FALSE,
                         overlap |-> gen > 0 /\ calc[gen].status = "pending",
                         requests |-> 1]]

\* RealtimeMap renders with a new tickets prop whose derived list is tk:
\* activeTickets is a new array (also when its content is the same), so a
\* mounted RouteLine reruns its effect.
Rerender(tk) ==
  /\ tickets' = tk
  /\ UNCHANGED <<optimizeRoute, showRoutes>>
  /\ IF showRoutes
     THEN Effect(tk, optimizeRoute)
     ELSE UNCHANGED <<isCalculatingRoutes, isCalculatingRef, routePolylineRef,
                      decoratorRef, mapLayers, gen, calc, timeoutId, cleanup>>

\* DashboardPage hands RealtimeMap a new ticket list.  Here the page is not
\* followed: any of its writes may have produced the list.
TicketsChange(tk) ==
  /\ Rerender(tk)
  /\ UNCHANGED dashVars

\* the ordering-mode button: setOptimizeRoute(o => !o)
ToggleOptimize ==
  /\ optimizeRoute' = ~optimizeRoute
  /\ UNCHANGED <<tickets, showRoutes>>
  /\ UNCHANGED dashVars
  /\ IF showRoutes
     THEN Effect(tickets, ~optimizeRoute)
     ELSE UNCHANGED <<isCalculatingRoutes, isCalculatingRef, routePolylineRef,
                      decoratorRef, mapLayers, gen, calc, timeoutId, cleanup>>

\* Hide Route: RouteLine unmounts and its last effect's cleanup, if it
\* returned one, runs: stopLoading, clearTimeout, clearRouteLayers
HideRoute ==
  LET ran == cleanup # 0
      layers1 == IF ran
                 THEN ClearRouteLayers(mapLayers, routePolylineRef, decoratorRef)
                 ELSE mapLayers
  IN /\ showRoutes
     /\ showRoutes' = FALSE
     /\ calc' = Forget(Unmounted(MarkTorn(calc)), layers1, gen)
     /\ cleanup' = 0
     /\ mapLayers' = layers1
     /\ isCalculatingRef' = FALSE
     /\ isCalculatingRoutes' = IF ran THEN FALSE ELSE isCalculatingRoutes
     /\ timeoutId' = IF ran THEN timeoutId \ {cleanup} ELSE timeoutId
     /\ routePolylineRef' = Null
     /\ decoratorRef' = Null
     /\ UNCHANGED <<tickets, optimizeRoute, gen>>
     /\ UNCHANGED dashVars

\* Show Route: a new RouteLine instance mounts, with fresh refs, and runs
\* its effect
ShowRoute ==
  /\ ~showRoutes
  /\ showRoutes' = TRUE
  /\ Effect(tickets, optimizeRoute)
  /\ UNCHANGED <<tickets, optimizeRoute>>
  /\ UNCHANGED dashVars

\* a continuation that, on a failure, sends the request again instead of
\* drawing the fallback
FetchResolveRetries(g, r) ==
  /\ g \in 1..gen
  /\ calc[g].status = "pending"
  /\ IF r.kind = "ok"
     THEN /\ calc' = [calc EXCEPT ![g].status = "settled", ![g].response = r]
          /\ timeoutId' = timeoutId \ {g}
     ELSE /\ calc' = [calc EXCEPT ![g].requests = @ + 1]
          /\ UNCHANGED timeoutId
  /\ UNCHANGED <<tickets, optimizeRoute, showRoutes, gen, cleanup, mapLayers,
                 routePolylineRef, decoratorRef, isCalculatingRef,
                 isCalculatingRoutes>>
  /\ UNCHANGED dashVars

\* The continuation of fetchOptimalRoute after its awaits (lines 534-598)
\* for calculation g, the fetch having produced r, and the finally that
\* clears its timer (line 603).
FetchResolve(g, r) ==
  LET c == calc[g]
      applied == StillCalculating(isCalculatingRef, c.mounted)
      poly == IF r.kind = "ok"
              THEN Polyline(g, RouteCoords(r.geometry),
                            RouteColor(c.optimizeRoute), "")
              ELSE Polyline(g, FallbackCoords(c.coords), "#4b5563", "6 8")
      deco == Decorator(g, RouteColor(c.optimizeRoute))
      decorated == r.kind = "ok" /\ PolylineDecorator
      layers1 == IF ~applied THEN mapLayers
                 ELSE IF decorated THEN mapLayers \cup {poly, deco}
                 ELSE mapLayers \cup {poly}
  IN /\ g \in 1..gen
     /\ calc[g].status = "pending"
     /\ mapLayers' = layers1
     /\ IF ~applied
        THEN \* both branches return before touching the map
             UNCHANGED <<routePolylineRef, decoratorRef, isCalculatingRef,
                         isCalculatingRoutes>>
        ELSE /\ routePolylineRef' = poly
             /\ decoratorRef' = IF decorated THEN deco ELSE decoratorRef
             /\ isCalculatingRef' = FALSE
             /\ isCalculatingRoutes' = FALSE
     /\ timeoutId' = timeoutId \ {g}
     /\ calc' = Forget([calc EXCEPT ![g].status = "settled", ![g].response = r],
                       layers1, gen)
     /\ UNCHANGED <<tickets, optimizeRoute, showRoutes, gen, cleanup>>
     /\ UNCHANGED dashVars

\* a timer callback that does not stop the loading
TimerFiresNoStop(g) ==
  /\ g \in timeoutId
  /\ timeoutId' = timeoutId \ {g}
  /\ calc' = [calc EXCEPT ![g].timedOut = TRUE]
  /\ UNCHANGED <<tickets, optimizeRoute, showRoutes, routePolylineRef,
                 decoratorRef, mapLayers, gen, cleanup, isCalculatingRef,
                 isCalculatingRoutes>>
  /\ UNCHANGED dashVars

\* a timer callback that tells the parent and leaves the ref set
TimerFiresKeepsRef(g) ==
  /\ g \in timeoutId
  /\ isCalculatingRoutes' = FALSE
  /\ timeoutId' = timeoutId \ {g}
  /\ calc' = [calc EXCEPT ![g].timedOut = TRUE]
  /\ UNCHANGED <<tickets, optimizeRoute, showRoutes, routePolylineRef,
                 decoratorRef, mapLayers, gen, cleanup, isCalculatingRef>>
  /\ UNCHANGED dashVars

\* setTimeout(stopLoading, 15000) of calculation g fires.  A pending timer
\* belongs to the last effect of the mounted instance: every cleanup clears
\* its own.
TimerFires(g) ==
  /\ g \in timeoutId
  /\ isCalculatingRef' = FALSE
  /\ isCalculatingRoutes' = FALSE
  /\ timeoutId' = timeoutId \ {g}
  /\ calc' = [calc EXCEPT ![g].timedOut = TRUE]
  /\ UNCHANGED <<tickets, optimizeRoute, showRoutes, routePolylineRef,
                 decoratorRef, mapLayers, gen, cleanup>>
  /\ UNCHANGED dashVars

\* the responses of Spec: one of each way the continuation can go
RaceResponses ==
  {r \in Responses : r.kind \in {"nonOk", "malformed", "network"}
                       \/ r.geometry = <<<<0, 1>>, <<2, 1>>>>}

Next ==
  \/ \E tk \in StopLists : TicketsChange(tk)
  \/ ToggleOptimize
  \/ HideRoute
  \/ ShowRoute
  \/ \E g \in 1..MaxCalcs, r \in RaceResponses : FetchResolve(g, r)
  \/ \E g \in 1..MaxCalcs : TimerFires(g)

Spec == Init /\ [][Next]_vars

\* A timer that is set and not cleared fires (setTimeout, line 602).  Nothing
\* is assumed of the fetches: a request may stay pending forever.
SpecLive == Spec /\ \A g \in 1..MaxCalcs : WF_vars(TimerFires(g))

----------------------------------------------------------------------------
(* The orderer and the two conversions on many inputs: the route is hidden *)
(* (one Hide Route after Init) while the ticket list and the mode have     *)
(* become any of the lists of at most MaxOrderStops tickets of the pool    *)
(* and either mode; then the route is shown, and the fetch resolves with   *)
(* every kind of response or its timer fires first.                        *)

InitOrder ==
  /\ InitPage(0)
  /\ tickets \in TicketLists(MaxOrderStops)
  /\ optimizeRoute \in BOOLEAN
  /\ showRoutes = FALSE
  /\ isCalculatingRoutes = FALSE
  /\ isCalculatingRef = FALSE
  /\ routePolylineRef = Null
  /\ decoratorRef = Null
  /\ mapLayers = {}
  /\ gen = 0
  /\ calc = [g \in 1..MaxCalcs |-> NoCalc]
  /\ timeoutId = {}
  /\ cleanup = 0

NextOrder ==
  \/ ShowRoute
  \/ \E g \in 1..MaxCalcs, r \in Responses : FetchResolve(g, r)
  \/ \E g \in 1..MaxCalcs : TimerFires(g)

SpecOrder == InitOrder /\ [][NextOrder]_vars

----------------------------------------------------------------------------
(* The earlier RouteLine definition (lines 49-233) in the earlier          *)
(* RealtimeMap (lines 235-330).  Its cleanup is stopLoading and clearRoute *)
(* without clearTimeout, its effect body clears the route before anything  *)
(* else and returns early when the flag is set, and its continuation       *)
(* installs what it got without reading the flag.  A continuation or a     *)
(* timer of an unmounted instance writes that instance's refs, which       *)
(* nothing reads, and calls the parent's setter and the map as any other.  *)

\* clearRoute (lines 69-81): the layers left on the map (both refs become
\* null); removeLayer of a layer that is not attached, or of null, changes
\* nothing
ClearRoute(layers, poly, deco) == (layers \ {poly}) \ {deco}

\* A settled calculation is never read again: its closure and its history
\* are dropped.  No history is kept of the pending ones either.
EarlyForget(c) ==
  [g \in DOMAIN c |->
     IF c[g].status = "settled"
     THEN [NoCalc EXCEPT !.status = "settled", !.requests = c[g].requests]
     ELSE c[g]]

\* The effect (lines 63-230) run by the mounted instance with props tk and
\* opt: first the cleanup the previous run returned, if any, then the body.
EarlyEffect(tk, opt) ==
  LET ran == cleanup # 0
      \* cleanup (83-86), then clearRoute() of line 89
      layers1 == ClearRoute(mapLayers, routePolylineRef, decoratorRef)
      flag1 == IF ran THEN FALSE ELSE isCalculatingRef
      loading1 == IF ran THEN FALSE ELSE isCalculatingRoutes
  IN /\ mapLayers' = layers1
     /\ routePolylineRef' = Null
     /\ decoratorRef' = Null
     /\ timeoutId' = IF Len(tk) >= 2 /\ ~flag1 THEN timeoutId \cup {gen + 1}
                     ELSE timeoutId
     /\ IF Len(tk) < 2
        THEN \* stopLoading(); return;
             /\ isCalculatingRef' = FALSE
             /\ isCalculatingRoutes' = FALSE
             /\ cleanup' = 0
             /\ calc' = EarlyForget(calc)
             /\ gen' = gen
        ELSE IF flag1
        THEN \* if (isCalculatingRef.current) return;
             /\ isCalculatingRef' = flag1
             /\ isCalculatingRoutes' = loading1
             /\ cleanup' = 0
             /\ calc' = EarlyForget(calc)
             /\ gen' = gen
        ELSE \* start a calculation: flag, loading, fetch, timer, cleanup
             /\ gen < MaxCalcs
             /\ gen' = gen + 1
             /\ isCalculatingRef' = TRUE
             /\ isCalculatingRoutes' = TRUE
             /\ cleanup' = gen + 1
             /\ calc' = [EarlyForget(calc) EXCEPT ![gen + 1] =
                           [mounted |-> TRUE,
                            coords |-> Coords(tk),
                            optimizeRoute |-> opt,
                            urlPoints |-> UrlPoints(Coords(tk), opt),
                            status |-> "pending",
                            response |-> NoResponse,
                            timedOut |-> FALSE,
                            torn |-> FALSE,
                            overlap |-> FALSE,
                            requests |-> 1]]

\* RealtimeMap renders with a new activeTickets array (lines 266-280, 324)
EarlyTicketsChange(tk) ==
  /\ tickets' = tk
  /\ UNCHANGED <<optimizeRoute, showRoutes>>
  /\ UNCHANGED dashVars
  /\ IF showRoutes
     THEN EarlyEffect(tk, optimizeRoute)
     ELSE UNCHANGED <<isCalculatingRoutes, isCalculatingRef, routePolylineRef,
                      decoratorRef, mapLayers, gen, calc, timeoutId, cleanup>>

\* the ordering-mode button (line 287)
EarlyToggleOptimize ==
  /\ optimizeRoute' = ~optimizeRoute
  /\ UNCHANGED <<tickets, showRoutes>>
  /\ UNCHANGED dashVars
  /\ IF showRoutes
     THEN EarlyEffect(tickets, ~optimizeRoute)
     ELSE UNCHANGED <<isCalculatingRoutes, isCalculatingRef, routePolylineRef,
                      decoratorRef, mapLayers, gen, calc, timeoutId, cleanup>>

\* Hide Route (lines 293, 322): RouteLine unmounts and its last effect's
\* cleanup, if it returned one, runs: stopLoading, clearRoute.  No timer is
\* cleared.
EarlyHideRoute ==
  LET ran == cleanup # 0
      layers1 == IF ran
                 THEN ClearRoute(mapLayers, routePolylineRef, decoratorRef)
                 ELSE mapLayers
  IN /\ showRoutes
     /\ showRoutes' = FALSE
     /\ calc' = EarlyForget(Unmounted(calc))
     /\ cleanup' = 0
     /\ mapLayers' = layers1
     /\ isCalculatingRef' = FALSE
     /\ isCalculatingRoutes' = IF ran THEN FALSE ELSE isCalculatingRoutes
     /\ routePolylineRef' = Null
     /\ decoratorRef' = Null
     /\ UNCHANGED <<tickets, optimizeRoute, gen, timeoutId>>
     /\ UNCHANGED dashVars

\* Show Route: a new instance mounts, with fresh refs, and runs its effect
EarlyShowRoute ==
  /\ ~showRoutes
  /\ showRoutes' = TRUE
  /\ EarlyEffect(tickets, optimizeRoute)
  /\ UNCHANGED <<tickets, optimizeRoute>>
  /\ UNCHANGED dashVars

\* The continuation of fetchOptimalRoute after its awaits (lines 156-222)
\* for calculation g, the fetch having produced r, and the finally that
\* clears its timer (line 227).  What it got is installed in either branch.
EarlyFetchResolve(g, r) ==
  LET c == calc[g]
      poly == IF r.kind = "ok"
              THEN Polyline(g, RouteCoords(r.geometry),
                            RouteColor(c.optimizeRoute), "")
              ELSE Polyline(g, FallbackCoords(c.coords), "#4b5563", "6 8")
      deco == Decorator(g, RouteColor(c.optimizeRoute))
      decorated == r.kind = "ok" /\ PolylineDecorator
      layers1 == IF decorated THEN mapLayers \cup {poly, deco}
                 ELSE mapLayers \cup {poly}
  IN /\ g \in 1..gen
     /\ calc[g].status = "pending"
     /\ mapLayers' = layers1
     /\ routePolylineRef' = IF c.mounted THEN poly ELSE routePolylineRef
     /\ decoratorRef' = IF c.mounted /\ decorated THEN deco ELSE decoratorRef
     /\ isCalculatingRef' = IF c.mounted THEN FALSE ELSE isCalculatingRef
     /\ isCalculatingRoutes' = FALSE
     /\ timeoutId' = timeoutId \ {g}
     /\ calc' = EarlyForget([calc EXCEPT ![g].status = "settled"])
     /\ UNCHANGED <<tickets, optimizeRoute, showRoutes, gen, cleanup>>
     /\ UNCHANGED dashVars

\* setTimeout(stopLoading, 15000) of calculation g fires (line 226): only
\* the finally of its own fetch clears it
EarlyTimerFires(g) ==
  /\ g \in timeoutId
  /\ isCalculatingRef' = IF calc[g].mounted THEN FALSE ELSE isCalculatingRef
  /\ isCalculatingRoutes' = FALSE
  /\ timeoutId' = timeoutId \ {g}
  /\ UNCHANGED <<tickets, optimizeRoute, showRoutes, routePolylineRef,
                 decoratorRef, mapLayers, gen, calc, cleanup>>
  /\ UNCHANGED dashVars

\* the responses of SpecEarly: a success and a failure
EarlyResponses ==
  {r \in Responses : r.kind = "network" \/ r.geometry = <<<<0, 1>>, <<2, 1>>>>}

NextEarly ==
  \/ \E tk \in StopLists : EarlyTicketsChange(tk)
  \/ EarlyToggleOptimize
  \/ EarlyHideRoute
  \/ EarlyShowRoute
  \/ \E g \in 1..MaxCalcs, r \in EarlyResponses : EarlyFetchResolve(g, r)
  \/ \E g \in 1..MaxCalcs : EarlyTimerFires(g)

\* the earlier RealtimeMap mounted with an empty ticket list, as in Init
SpecEarly == Init /\ [][NextEarly]_vars

----------------------------------------------------------------------------
(* DashboardPage (src/unnamed/part_000), the server it reads and the       *)
(* status update of TicketsPanel.  The server answers a request at some    *)
(* moment between its sending and its continuation; a change of the table  *)
(* sends its realtime event to the subscribed channel.                     *)

Ids(list) == {list[i].id : i \in 1..Len(list)}

\* .select(...).order("created_at", {ascending: false}) over these rows
RECURSIVE SelectTickets(_)
SelectTickets(rows) ==
  IF rows = {} THEN <<>>
  ELSE LET newest == CHOOSE r \in rows : \A q \in rows : q.created_at <= r.created_at
       IN <<newest>> \o SelectTickets(rows \ {newest})

\* payload: eventType and, read for a DELETE only, old.id
Event(eventType, id) ==
  [eventType |-> eventType, id |-> IF eventType = "DELETE" THEN id ELSE 0]

\* a filter that removes nothing
FilterKeepsAll(prev, id) == prev

\* prev.filter((t) => t.id !== payload.old.id)
Filter(prev, id) == SelectSeq(prev, LAMBDA t : t.id # id)

\* a map that sets the status of every ticket
HandleUpdateAll(prev, id, status) ==
  [i \in 1..Len(prev) |-> [prev[i] EXCEPT !.status = status]]

\* handleUpdate: prev.map((t) => (t.id === id ? { ...t, status } : t))
HandleUpdate(prev, id, status) ==
  [i \in 1..Len(prev) |->
     IF prev[i].id = id THEN [prev[i] EXCEPT !.status = status] ELSE prev[i]]

\* a setTickets that keeps the tickets the new list does not name
SetTicketsMerged(list) ==
  LET merged == list \o SelectSeq(dashboardTickets, LAMBDA t : t.id \notin Ids(list))
  IN /\ dashboardTickets' = merged
     /\ Rerender(ActiveTickets(merged))

\* setTickets(list): the page and RealtimeMap render again
SetTickets(list) ==
  /\ dashboardTickets' = list
  /\ Rerender(ActiveTickets(list))

\* the realtime server sends the event of a change to a subscribed channel
Notify(event) == IF Subscribed(subscription) THEN Append(channel, event) ELSE channel

\* a row is inserted into the table (by a reporting client)
DbInsert ==
  /\ inserted < MaxRows
  /\ inserted' = inserted + 1
  /\ table' = table \cup {Row(inserted + 1, "ACTIVE")}
  /\ channel' = Notify(Event("INSERT", inserted + 1))
  /\ UNCHANGED <<dashboardTickets, fetches, issued, updates>>
  /\ UNCHANGED subVars
  /\ UNCHANGED mapVars

\* a row is deleted from the table
DbDelete(id) ==
  /\ inserted - Cardinality(table) < MaxDeletes
  /\ \E r \in table : r.id = id
  /\ table' = {r \in table : r.id # id}
  /\ channel' = Notify(Event("DELETE", id))
  /\ UNCHANGED <<dashboardTickets, inserted, fetches, issued, updates>>
  /\ UNCHANGED subVars
  /\ UNCHANGED mapVars

\* a fetchTickets that sends no request while another one is pending
SendFetchDeduplicated(fs, n) ==
  IF \E m \in DOMAIN fs : fs[m].phase \in {"sent", "answered"}
  THEN [fs EXCEPT ![n] = [NoFetch EXCEPT !.phase = "settled"]]
  ELSE [fs EXCEPT ![n] = [NoFetch EXCEPT !.phase = "sent"]]

\* fetchTickets() up to its await: the request is sent
SendFetch(fs, n) ==
  [fs EXCEPT ![n] = [NoFetch EXCEPT !.phase = "sent",
                                    !.early = fs[1].phase # "settled"]]

\* the subscription callback (lines 59-69) for the oldest event not handled
HandleEvent ==
  /\ Subscribed(subscription)
  /\ channel # <<>>
  /\ channel' = Tail(channel)
  /\ IF Head(channel).eventType \in {"INSERT", "UPDATE"}
     THEN \* await fetchTickets()
          /\ issued < MaxFetches
          /\ issued' = issued + 1
          /\ fetches' = SendFetch(fetches, issued + 1)
          /\ UNCHANGED dashboardTickets
          /\ UNCHANGED mapVars
     ELSE \* DELETE
          /\ SetTickets(Filter(dashboardTickets, Head(channel).id))
          /\ UNCHANGED <<fetches, issued>>
  /\ UNCHANGED <<table, inserted, updates>>
  /\ UNCHANGED subVars

\* the server answers fetch n: the rows it holds now, or an error
FetchAnswer(n, err) ==
  /\ fetches[n].phase = "sent"
  /\ fetches' = [fetches EXCEPT ![n].phase = "answered",
                                ![n].error = err,
                                ![n].data = IF err THEN <<>> ELSE SelectTickets(table)]
  /\ UNCHANGED <<dashboardTickets, table, inserted, channel, issued, updates>>
  /\ UNCHANGED subVars
  /\ UNCHANGED mapVars

\* once the initial fetch has settled, the data of the settled fetches is
\* dropped
ForgetFetches(fs) ==
  [n \in DOMAIN fs |->
     IF fs[n].phase = "settled" /\ fs[1].phase = "settled"
     THEN [NoFetch EXCEPT !.phase = "settled", !.error = fs[n].error]
     ELSE fs[n]]

\* an error check that never finds an error
FailedNever(f) == FALSE

\* if (error)
Failed(f) == f.error

\* fetchTickets after its await (lines 43-47) for fetch n
FetchTicketsResolve(n) ==
  /\ fetches[n].phase = "answered"
  /\ fetches' = ForgetFetches([fetches EXCEPT ![n].phase = "settled"])
  /\ IF Failed(fetches[n])
     THEN \* console.error; return
          /\ UNCHANGED dashboardTickets
          /\ UNCHANGED mapVars
     ELSE \* if (data) setTickets(data)
          SetTickets(fetches[n].data)
  /\ UNCHANGED <<table, inserted, channel, issued, updates>>
  /\ UNCHANGED subVars

\* the status select of a listed ticket is changed: updateStatus(id,
\* newStatus) up to its await
UpdateStatus(u, id, newStatus) ==
  /\ pageMounted = "mounted"
  /\ updates[u].phase = "none"
  /\ \E i \in 1..Len(dashboardTickets) :
       dashboardTickets[i].id = id /\ dashboardTickets[i].status # newStatus
  /\ updates' = [updates EXCEPT ![u] = [phase |-> "sent", id |-> id,
                                        status |-> newStatus, error |-> FALSE]]
  /\ UNCHANGED <<dashboardTickets, table, inserted, channel, fetches, issued>>
  /\ UNCHANGED subVars
  /\ UNCHANGED mapVars

\* the server answers update u: an error, or the row (if it still exists)
\* is updated and its UPDATE event sent
UpdateAnswer(u, err) ==
  LET id == updates[u].id
      hit == \E r \in table : r.id = id
  IN /\ updates[u].phase = "sent"
     /\ updates' = [updates EXCEPT ![u].phase = "answered", ![u].error = err]
     /\ IF err \/ ~hit
        THEN UNCHANGED <<table, channel>>
        ELSE /\ table' = {IF r.id = id THEN Row(id, updates[u].status) ELSE r :
                            r \in table}
             /\ channel' = Notify(Event("UPDATE", id))
     /\ UNCHANGED <<dashboardTickets, inserted, fetches, issued>>
     /\ UNCHANGED subVars
     /\ UNCHANGED mapVars

\* updateStatus after its await (line 867) for update u
UpdateResolve(u) ==
  /\ updates[u].phase = "answered"
  /\ updates' = [updates EXCEPT ![u] = [NoUpdate EXCEPT !.phase = "settled"]]
  /\ IF updates[u].error
     THEN /\ UNCHANGED dashboardTickets
          /\ UNCHANGED mapVars
     ELSE \* onUpdate?.(id, newStatus)
          SetTickets(HandleUpdate(dashboardTickets, updates[u].id, updates[u].status))
  /\ UNCHANGED <<table, inserted, channel, fetches, issued>>
  /\ UNCHANGED subVars

\* RealtimeMap with the route hidden (Hide Route was chosen before the
\* initial fetch resolved): it derives its list and RouteLine stays unmounted
InitHidden ==
  /\ tickets = <<>>
  /\ optimizeRoute = FALSE
  /\ showRoutes = FALSE
  /\ isCalculatingRoutes = FALSE
  /\ isCalculatingRef = FALSE
  /\ routePolylineRef = Null
  /\ decoratorRef = Null
  /\ mapLayers = {}
  /\ gen = 0
  /\ calc = [g \in 1..MaxCalcs |-> NoCalc]
  /\ timeoutId = {}
  /\ cleanup = 0

\* The page and the change feed: rows are inserted and deleted by other
\* clients while the page fetches and handles the events, over a table that
\* held all but one or two of the MaxRows rows when the page mounted.
InitDash ==
  /\ \E k \in (MaxRows - 2)..(MaxRows - 1) : InitPage(k)
  /\ InitHidden

NextDash ==
  \/ DbInsert
  \/ \E id \in 1..MaxRows : DbDelete(id)
  \/ HandleEvent
  \/ \E n \in 1..MaxFetches, err \in BOOLEAN : FetchAnswer(n, err)
  \/ \E n \in 1..MaxFetches : FetchTicketsResolve(n)

SpecDash == InitDash /\ [][NextDash]_vars

\* The page and the status select of TicketsPanel: statuses are changed from
\* the list while the page fetches and handles the UPDATE events and the
\* INSERT event of a last row, over a table that held all or all but one of
\* the MaxRows rows when the page mounted.
InitStatus ==
  /\ \E k \in (MaxRows - 1)..MaxRows : InitPage(k)
  /\ InitHidden

NextStatus ==
  \/ DbInsert
  \/ \E u \in 1..MaxUpdates, id \in 1..MaxRows, st \in Statuses :
       UpdateStatus(u, id, st)
  \/ \E u \in 1..MaxUpdates, err \in BOOLEAN : UpdateAnswer(u, err)
  \/ \E u \in 1..MaxUpdates : UpdateResolve(u)
  \/ HandleEvent
  \/ \E n \in 1..MaxFetches, err \in BOOLEAN : FetchAnswer(n, err)
  \/ \E n \in 1..MaxFetches : FetchTicketsResolve(n)

SpecStatus == InitStatus /\ [][NextStatus]_vars

----------------------------------------------------------------------------
(* The life of the page: its effect has no dependencies (line 87), so its  *)
(* body runs once, when the instance mounts, and its cleanup once, when    *)
(* the instance unmounts.  The cleanup removes the channel and nothing     *)
(* else: a fetch in flight goes on, and so does its continuation, which    *)
(* calls setTickets as before.  The model follows that call, so that a     *)
(* write the code issues after the unmount is seen as one (React itself    *)
(* drops a state update addressed to an unmounted component).              *)

\* the statuses the subscribe callback tells apart (lines 72-80)
ChannelStatuses == {"SUBSCRIBED", "CHANNEL_ERROR", "TIMED_OUT"}

\* DashboardPage mounts and its effect runs (lines 31-87): fetchTickets() up
\* to its await, then the channel is created and subscribed
PageMount ==
  LET issued1 == issued + 1
  IN /\ pageMounted = "no"
     /\ pageMounted' = "mounted"
     /\ issued' = issued1
     /\ fetches' = [fetches EXCEPT ![issued1] = [NoFetch EXCEPT !.phase = "sent"]]
     /\ subscription' = [subscription EXCEPT !.created = @ + 1, !.after = issued1]
     /\ UNCHANGED <<dashboardTickets, table, inserted, channel, updates,
                    channelStatus>>
     /\ UNCHANGED mapVars

\* DashboardPage unmounts and the cleanup of its effect runs (lines 83-86):
\* supabase.removeChannel(channel); the events not yet handled are lost
\* with the callback
PageUnmount ==
  /\ pageMounted = "mounted"
  /\ pageMounted' = "unmounted"
  /\ subscription' = [subscription EXCEPT !.removed = @ + 1]
  /\ channel' = <<>>
  /\ UNCHANGED <<dashboardTickets, table, inserted, fetches, issued, updates,
                 channelStatus>>
  /\ UNCHANGED mapVars

\* a callback that loads the tickets again when the channel is subscribed
StatusSignalRefetches(status) ==
  /\ Subscribed(subscription)
  /\ status # channelStatus
  /\ channelStatus' = status
  /\ IF status = "SUBSCRIBED" /\ issued < MaxFetches
     THEN /\ issued' = issued + 1
          /\ fetches' = SendFetch(fetches, issued + 1)
     ELSE UNCHANGED <<fetches, issued>>
  /\ UNCHANGED <<dashboardTickets, table, inserted, channel, updates,
                 pageMounted, subscription>>
  /\ UNCHANGED mapVars

\* the subscribe callback (lines 71-81) is called with a status: it writes
\* to the console.  A status equal to the last one leaves nothing to tell
\* them apart.
StatusSignal(status) ==
  /\ Subscribed(subscription)
  /\ status # channelStatus
  /\ channelStatus' = status
  /\ UNCHANGED <<dashboardTickets, table, inserted, channel, fetches, issued,
                 updates, pageMounted, subscription>>
  /\ UNCHANGED mapVars

\* the page before it mounts, over a table of all but one of the MaxRows rows
InitLifecycle ==
  /\ dashboardTickets = <<>>
  /\ table = {Row(id, "ACTIVE") : id \in 1..(MaxRows - 1)}
  /\ inserted = MaxRows - 1
  /\ channel = <<>>
  /\ fetches = [n \in 1..MaxFetches |-> NoFetch]
  /\ issued = 0
  /\ updates = [u \in 1..MaxUpdates |-> NoUpdate]
  /\ pageMounted = "no"
  /\ subscription = NoSubscription
  /\ channelStatus = ""
  /\ InitHidden

NextLifecycle ==
  \/ PageMount
  \/ PageUnmount
  \/ \E status \in ChannelStatuses : StatusSignal(status)
  \/ DbInsert
  \/ \E id \in 1..MaxRows : DbDelete(id)
  \/ HandleEvent
  \/ \E n \in 1..MaxFetches, err \in BOOLEAN : FetchAnswer(n, err)
  \/ \E n \in 1..MaxFetches : FetchTicketsResolve(n)

SpecLifecycle == InitLifecycle /\ [][NextLifecycle]_vars

----------------------------------------------------------------------------
(* Claims *)

Polylines == {l \in mapLayers : l.kind = "polyline"}

Decorators == {l \in mapLayers : l.kind = "decorator"}

\* the layers a step attaches
Installed == mapLayers' \ mapLayers

\* a list of [lon, lat] points as (lat, lon) pairs
LatLon(points) == [k \in 1..Len(points) |-> <<points[k][2], points[k][1]>>]

\* C1: a fetch result, service route or fallback, is installed on the map
\* only if it belongs to the most recently triggered calculation.
C1_OnlyLatestInstalls == [][\A l \in Installed : l.gen = gen]_vars

\* C2: when a second calculation is triggered before the first one's fetch
\* resolves, then once both fetches have settled (no timer having fired and
\* nothing else having happened) exactly one route polyline is on the map
\* and it is the second calculation's.
C2_SecondTriggerWins ==
  \A g \in 2..gen :
    ( /\ g = gen /\ cleanup = g /\ showRoutes
      /\ calc[g].overlap /\ ~calc[g].timedOut
      /\ calc[g].status = "settled" /\ calc[g - 1].status = "settled" )
    => /\ Cardinality(Polylines) = 1
       /\ \A l \in Polylines : l.gen = g

\* C3: at most one route polyline and at most one arrow decorator are
\* attached to the map in every reachable state.
C3_AtMostOneRouteVisual ==
  /\ Cardinality(Polylines) <= 1
  /\ Cardinality(Decorators) <= 1

\* C3 witness: a third calculation has started, so earlier visuals had to be
\* removed, and a polyline with its decorator is attached.
C3_Witness ==
  /\ gen >= 3
  /\ \E p \in Polylines, d \in Decorators : p.gen = d.gen /\ p.gen >= 2

\* C4: when the timer of a calculation fires before its fetch has settled
\* the loading indicator becomes false, and the fetch installs nothing when
\* it resolves later.
C4_TimedOutResultIgnored ==
  [][ /\ \A g \in 1..gen :
           (~calc[g].timedOut /\ calc'[g].timedOut) => ~isCalculatingRoutes'
      /\ \A l \in Installed : ~calc[l.gen].timedOut ]_vars

\* C5: while the stop list has fewer than 2 tickets or RouteLine is
\* unmounted no route visual is attached and the loading indicator is
\* false, and a fetch that was pending at such a teardown never installs a
\* visual when it resolves.
C5_TornDownStaysClear ==
  /\ []((~showRoutes \/ Len(tickets) < 2)
          => (mapLayers = {} /\ ~isCalculatingRoutes))
  /\ [][\A l \in Installed : ~calc[l.gen].torn]_vars

\* C6: once the request of the current calculation (started with at least 2
\* stops, not superseded, not torn down, its timer not fired) has settled
\* with a failure, a straight-line fallback polyline is on the map.
C6_FailureShowsFallback ==
  \A g \in 1..gen :
    ( /\ cleanup = g /\ showRoutes /\ ~calc[g].timedOut
      /\ calc[g].status = "settled" /\ calc[g].response.kind # "ok" )
    => \E l \in Polylines : l.dashArray = "6 8"

\* C7: the fallback polyline installed after a network failure or a non-Ok
\* response connects the points of the routing request in the order they
\* were given to the request (the nearest-neighbour order when
\* optimizeRoute is on), as (lat, lon), in the dashed grey style.
C7_FallbackFollowsRequestOrder ==
  \A l \in Polylines :
    calc[l.gen].response.kind \in {"network", "nonOk"}
    => /\ l.latlngs = LatLon(calc[l.gen].urlPoints)
       /\ l.color = "#4b5563" /\ l.dashArray = "6 8"

\* the indices of the input points not among the first k - 1 output points
Remaining(in, out, k) == {i \in 1..Len(in) : \A j \in 1..(k - 1) : out[j] # in[i]}

\* out is the greedy nearest-neighbour order of in, ties to the earlier input
IsGreedyOrder(in, out) ==
  /\ Len(out) = Len(in)
  /\ \A p \in Range(in) \cup Range(out) :
       Cardinality({i \in 1..Len(in) : in[i] = p})
         = Cardinality({i \in 1..Len(out) : out[i] = p})
  /\ out[1] = in[1]
  /\ \A k \in 2..Len(out) :
       \E c \in Remaining(in, out, k) :
         /\ in[c] = out[k]
         /\ \A i \in Remaining(in, out, k) :
              /\ Dist2(in[i], out[k - 1]) >= Dist2(out[k], out[k - 1])
              /\ Dist2(in[i], out[k - 1]) = Dist2(out[k], out[k - 1]) => c <= i

\* C8: in nearest-neighbour mode the ordered list is a permutation of the
\* input that begins with its first point, each following point a remaining
\* point nearest to the one before it, the first of them in input order on
\* a tie.
C8_NearestNeighbourOrder ==
  \A g \in 1..gen :
    (calc[g].status = "pending" /\ calc[g].optimizeRoute)
    => IsGreedyOrder(calc[g].coords, calc[g].urlPoints)

\* C8 witness: a nearest-neighbour request of four points whose order is
\* not the input order and in which a tie was decided.
C8_Witness ==
  \E g \in 1..gen :
    /\ calc[g].status = "pending" /\ calc[g].optimizeRoute
    /\ Len(calc[g].coords) = 4
    /\ calc[g].urlPoints # calc[g].coords
    /\ \E k \in 2..4 :
         \E i, j \in Remaining(calc[g].coords, calc[g].urlPoints, k) :
           /\ i # j
           /\ calc[g].coords[i] = calc[g].urlPoints[k]
           /\ Dist2(calc[g].coords[j], calc[g].urlPoints[k - 1])
                = Dist2(calc[g].coords[i], calc[g].urlPoints[k - 1])

C10_ServicePolylineSwapsGeometry ==
  \A l \in Polylines :
    calc[l.gen].response.kind = "ok"
    => LET geometry == calc[l.gen].response.geometry
       IN /\ Len(l.latlngs) = Len(geometry)
          /\ \A k \in 1..Len(geometry) :
               /\ l.latlngs[k][1] = geometry[k][2]
               /\ l.latlngs[k][2] = geometry[k][1]

\* C10 witness: a polyline of three points installed from an Ok response.
C10_Witness ==
  \E l \in Polylines :
    /\ calc[l.gen].response.kind = "ok"
    /\ Len(l.latlngs) = 3 /\ l.dashArray = ""

C12_BelowTwoNoRoute ==
  /\ [](Len(tickets) < 2 => (mapLayers = {} /\ ~isCalculatingRoutes))
  /\ [][Len(tickets') < 2 =>
          /\ gen' = gen
          /\ \A g \in 1..MaxCalcs :
               calc'[g].status = "pending" => calc[g].status = "pending"]_vars

\* C12 witness: the list has dropped to one ticket while RouteLine is
\* mounted and the fetch of an earlier calculation is still pending.
C12_Witness ==
  /\ Len(tickets) = 1 /\ showRoutes
  /\ \E g \in 1..gen : calc[g].status = "pending" /\ calc[g].torn

\* C13: every calculation trigger with at least 2 stops sets the loading
\* indicator to true, and whenever the indicator is true it eventually
\* becomes false again, also when no fetch ever resolves (timers that stay
\* set fire); and once the fetch of a first calculation that was neither
\* superseded, torn down nor timed out has resolved with a service route,
\* exactly one polyline, of at least 2 vertices, is on the map and the
\* indicator is false.
C13_LoadingEnds ==
  /\ [][gen' # gen => isCalculatingRoutes']_vars
  /\ isCalculatingRoutes ~> ~isCalculatingRoutes
  /\ []( ( /\ gen = 1 /\ cleanup = 1 /\ showRoutes
           /\ calc[1].status = "settled" /\ calc[1].response.kind = "ok"
           /\ ~calc[1].timedOut )
         => /\ Cardinality(Polylines) = 1
            /\ \A l \in Polylines : Len(l.latlngs) >= 2
            /\ ~isCalculatingRoutes )

\* C13 witness: the timer of the latest calculation has fired while its
\* fetch is still pending, and the loading indicator is false.
C13_Witness ==
  /\ gen >= 1 /\ cleanup = gen /\ showRoutes
  /\ calc[gen].status = "pending" /\ calc[gen].timedOut
  /\ ~isCalculatingRoutes

\* the step handles the oldest event of the channel
Handles(eventTypes) ==
  /\ channel # <<>>
  /\ channel' = Tail(channel)
  /\ Head(channel).eventType \in eventTypes

\* the step runs the continuation of fetch n
Settles(n) == fetches[n].phase = "answered" /\ fetches'[n].phase = "settled"

\* C14: an INSERT or UPDATE event triggers one full re-fetch (and leaves the
\* canonical list alone), and when a fetch succeeds the canonical list
\* becomes exactly the tickets it returned, in the returned order.
C14_RefetchReplaces ==
  [][ /\ Handles({"INSERT", "UPDATE"}) =>
           /\ issued' = issued + 1
           /\ fetches'[issued'].phase = "sent"
           /\ \A n \in 1..issued : fetches'[n] = fetches[n]
           /\ dashboardTickets' = dashboardTickets
      /\ \A n \in 1..MaxFetches :
           (Settles(n) /\ ~fetches[n].error) => dashboardTickets' = fetches[n].data
    ]_vars

\* C14 witness: the re-fetches of an INSERT and of an UPDATE event have
\* both succeeded while the initial fetch is pending, and the list is the
\* result of the second, without a ticket that the first had returned.
C14_Witness ==
  /\ fetches[1].phase # "settled"
  /\ fetches[2].phase = "settled" /\ ~fetches[2].error
  /\ fetches[3].phase = "settled" /\ ~fetches[3].error
  /\ dashboardTickets = fetches[3].data
  /\ \E t \in Range(fetches[2].data) : t \notin Range(dashboardTickets)

\* C15: a DELETE event for id X issues no re-fetch and changes the canonical
\* list to the same tickets minus the one with id X, the others unchanged
\* and in the same order; if X is not in the list the list is unchanged.
C15_DeleteFiltersInPlace ==
  [][Handles({"DELETE"}) =>
       LET X == Head(channel).id
       IN /\ issued' = issued /\ fetches' = fetches
          /\ dashboardTickets' = SelectSeq(dashboardTickets, LAMBDA t : t.id # X)
          /\ X \notin Ids(dashboardTickets) => dashboardTickets' = dashboardTickets
    ]_vars

\* the rows whose deletion the page has been notified of
HandledDeletes ==
  {X \in 1..inserted :
     /\ \A r \in table : r.id # X
     /\ \A i \in 1..Len(channel) : channel[i] # Event("DELETE", X)}

\* C15 witness: the DELETE event of a row has been handled and the list
\* holds an older and a newer ticket than the deleted one.
C15_Witness ==
  \E X \in HandledDeletes :
    /\ X \notin Ids(dashboardTickets)
    /\ \E a, b \in Ids(dashboardTickets) : a < X /\ X < b

\* C16: once the DELETE event for id X has been handled, X is absent from
\* the canonical list in every later state, also when a fetch that was
\* issued before the deletion resolves afterwards.
C16_DeletedStaysAbsent ==
  \A X \in HandledDeletes : X \notin Ids(dashboardTickets)

\* C17: if an INSERT or UPDATE event arrives before the initial load has
\* completed, then after the initial load and the event's re-fetch have
\* both succeeded (no other fetch issued, the list not changed otherwise)
\* the canonical list is the re-fetch's result, whichever settles first.
C17_RefetchSupersedesInitialLoad ==
  [][ /\ ( /\ Settles(2) /\ ~fetches[2].error /\ fetches[2].early
           /\ fetches[1].phase = "settled" /\ ~fetches[1].error
           /\ issued = 2 )
         => dashboardTickets' = fetches[2].data
      /\ ( /\ Settles(1) /\ ~fetches[1].error
           /\ fetches[2].phase = "settled" /\ ~fetches[2].error /\ fetches[2].early
           /\ issued = 2 /\ dashboardTickets = fetches[2].data )
         => dashboardTickets' = fetches[2].data
    ]_vars

\* C18: when a ticket fetch, initial or refresh, returns an error the
\* canonical list is left as it was and no fetch is issued.
C18_FetchErrorLeavesList ==
  [][\A n \in 1..MaxFetches :
       (Settles(n) /\ fetches[n].error) =>
          /\ dashboardTickets' = dashboardTickets
          /\ tickets' = tickets
          /\ issued' = issued
          /\ \A m \in 1..MaxFetches : m # n => fetches'[m].phase = fetches[m].phase
    ]_vars

\* C18 witness: a refresh fetch has settled with an error and the list holds
\* the tickets of the initial fetch.
C18_Witness ==
  /\ fetches[1].phase = "settled" /\ ~fetches[1].error
  /\ \E n \in 2..issued : fetches[n].phase = "settled" /\ fetches[n].error
  /\ \A n \in 2..issued : fetches[n].phase = "settled" => fetches[n].error
  /\ Len(dashboardTickets) >= 1
  /\ Len(dashboardTickets) < Cardinality(table)

\* C19: a status change requested in the ticket list changes the canonical
\* list only when the remote update has succeeded: sending it and its
\* failing leave the list unchanged, and its success changes only the status
\* of the ticket with the given id (length, order and the other tickets
\* stay).
C19_StatusPatchedAfterSuccess ==
  [][\A u \in 1..MaxUpdates :
       /\ (updates[u].phase = "none" /\ updates'[u].phase = "sent")
            => dashboardTickets' = dashboardTickets
       /\ (updates[u].phase = "sent" /\ updates'[u].phase = "answered")
            => dashboardTickets' = dashboardTickets
       /\ (updates[u].phase = "answered" /\ updates'[u].phase = "settled") =>
            IF updates[u].error
            THEN dashboardTickets' = dashboardTickets
            ELSE /\ Len(dashboardTickets') = Len(dashboardTickets)
                 /\ \A i \in 1..Len(dashboardTickets) :
                      IF dashboardTickets[i].id = updates[u].id
                      THEN dashboardTickets'[i] =
                             [dashboardTickets[i] EXCEPT !.status = updates[u].status]
                      ELSE dashboardTickets'[i] = dashboardTickets[i]
    ]_vars

\* C19 witness: an update has succeeded, its UPDATE event is not handled
\* yet, and the list holds the patched ticket among tickets left ACTIVE.
C19_Witness ==
  /\ updates[1].phase = "settled"
  /\ \E i \in 1..Len(channel) : channel[i].eventType = "UPDATE"
  /\ \E i, j \in 1..Len(dashboardTickets) :
       /\ dashboardTickets[i].status = "COMPLETE"
       /\ dashboardTickets[j].status = "ACTIVE"
       /\ Row(dashboardTickets[i].id, "COMPLETE") \in table

\* C20: re-fetches triggered by INSERT/UPDATE events are neither
\* deduplicated nor queued (each event sends one more fetch, whatever
\* fetches are pending), and when the last pending fetch settles
\* successfully the canonical list is its result, whatever the order in
\* which the fetches were issued.
C20_LastResolvedWins ==
  [][ /\ Handles({"INSERT", "UPDATE"}) =>
           /\ fetches'[issued + 1].phase = "sent"
           /\ \A n \in 1..issued : fetches'[n].phase = fetches[n].phase
      /\ \A n \in 1..issued :
           ( /\ Settles(n) /\ ~fetches[n].error
             /\ \A m \in 1..issued : m # n => fetches[m].phase = "settled" )
           => dashboardTickets' = fetches[n].data
    ]_vars

\* C20 witness: all the fetches have settled successfully, every event is
\* handled and no row was deleted, and the list lacks a row of the table:
\* the fetch that resolved last was not the one issued last.
C20_Witness ==
  /\ issued = MaxFetches
  /\ \A n \in 1..issued : fetches[n].phase = "settled" /\ ~fetches[n].error
  /\ channel = <<>>
  /\ Cardinality(table) = inserted
  /\ \E r \in table : r.id \notin Ids(dashboardTickets)

\* the calculations whose request (fetch(url), line 534) is in flight
InFlight == {g \in 1..MaxCalcs : calc[g].status = "pending"}

\* C22: every route calculation that is triggered sends exactly one request:
\* a step sends a request only by starting a calculation, and then one; the
\* continuation of a request ends that request and sends no other, and when
\* it applies a failure the dashed fallback of its own stops is attached in
\* the same step; the 15 s timer sends none and ends none.
C22_OneRequestPerCalculation ==
  [][/\ \A g \in 1..MaxCalcs :
          calc'[g].requests = calc[g].requests + (IF g = gen' /\ gen' # gen THEN 1 ELSE 0)
     /\ gen' # gen => gen' = gen + 1 /\ calc[gen'].requests = 0 /\ gen' \in InFlight'
     /\ \A g \in InFlight \ InFlight' :
          /\ InFlight' = InFlight \ {g}
          /\ ( /\ calc'[g].response.kind \in {"okNoGeometry", "nonOk", "malformed", "network"}
               /\ StillCalculating(isCalculatingRef, calc[g].mounted) )
             => Polyline(g, FallbackCoords(calc[g].coords), "#4b5563", "6 8")
                  \in mapLayers'
     /\ (\E g \in timeoutId : g \in InFlight /\ g \notin timeoutId' /\ calc'[g].timedOut)
          => InFlight' = InFlight]_vars

\* a failed request has been answered by the fallback, the only request sent
C22_Witness ==
  /\ gen = 1
  /\ calc[1].requests = 1
  /\ InFlight = {}
  /\ calc[1].response.kind = "network"
  /\ \E l \in Polylines : l.gen = 1 /\ l.dashArray = "6 8"

\* C23: while the calculating flag or the loading indicator is true, no
\* route visual is attached to the map: the previous one was removed before
\* the calculation started.
C23_NoVisualWhileCalculating ==
  (isCalculatingRef \/ isCalculatingRoutes) => mapLayers = {}

\* a second calculation is running, started after the first had settled
C23_Witness ==
  /\ gen >= 2
  /\ isCalculatingRef
  /\ isCalculatingRoutes
  /\ calc[gen].status = "pending"
  /\ ~calc[gen].overlap
  /\ calc[gen - 1].status = "settled"
  /\ mapLayers = {}

\* C26: the flag of the mounted RouteLine instance equals the value last
\* passed to onLoadingChange, which the parent keeps as isCalculatingRoutes.
C26_RefEqualsLoading ==
  isCalculatingRef = isCalculatingRoutes

\* the timer has reset both while its request is still in flight
C26_Witness ==
  /\ \E g \in InFlight : calc[g].timedOut /\ g = gen
  /\ ~isCalculatingRef
  /\ ~isCalculatingRoutes

\* C24: with the earlier RouteLine definition, overlapping calculations do
\* not both draw: at most one route polyline is attached to the map, and
\* once no request is in flight every attached layer belongs to the latest
\* calculation (the result of a superseded fetch does not stay).
C24_EarlyOverlapDrawsOnce ==
  /\ Cardinality(Polylines) <= 1
  /\ InFlight = {} => \A l \in mapLayers : l.gen = gen

\* C21: a mounted page instance has created exactly one subscription, after
\* its initial load was started, and an unmounted one has removed it exactly
\* once; a status signal (SUBSCRIBED, CHANNEL_ERROR, TIMED_OUT) leaves the
\* canonical list as it is, creates or removes no subscription and sends no
\* fetch.
C21_OneSubscriptionPerMount ==
  /\ [](/\ subscription.created = IF pageMounted = "no" THEN 0 ELSE 1
        /\ subscription.removed = IF pageMounted = "unmounted" THEN 1 ELSE 0
        /\ pageMounted # "no" =>
             subscription.after >= 1 /\ fetches[1].phase # "none")
  /\ [][channelStatus' # channelStatus =>
          UNCHANGED <<dashboardTickets, subscription, issued, fetches>>]_vars

\* the page has loaded its list, been told of a timeout and been unmounted
C21_Witness ==
  /\ pageMounted = "unmounted"
  /\ subscription.created = 1
  /\ subscription.removed = 1
  /\ channelStatus = "TIMED_OUT"
  /\ dashboardTickets # <<>>

\* C25: convergence.  When the feed has delivered every change, every fetch
\* has resolved, all of them successfully, and the store changes no more
\* (a later change would put its event on the channel), the canonical list
\* holds exactly the rows of the store, with their ids and statuses.
C25_ConvergesToStore ==
  ( /\ channel = <<>>
    /\ \A n \in 1..MaxFetches :
         fetches[n].phase \in {"none", "settled"} /\ ~fetches[n].error )
  => Range(dashboardTickets) = table

====
